---- MODULE Spec2Model ----
(***************************************************************************)
(* ifcdot.py: write_dot() renders the IfcObject entities of an IFC file    *)
(* and the relationships between them as a GraphViz description, filtered  *)
(* by an 'interest' set of entity ids, and returns the interest set grown  *)
(* by one hop; cluster() nests the spatial decomposition as subgraphs.     *)
(*                                                                         *)
(* The IFC file is the input: a record                                     *)
(*   types  : entity id -> entity type (what is_a() answers from),         *)
(*   rels   : the IfcRelationship entities in file order,                  *)
(*   decomp : entity id -> what get_decomposition() returns for it.        *)
(* Python set objects live in 'heap'; 'interest' and 'new_interest' are    *)
(* references into it, so that sharing a set between the caller, the       *)
(* default argument and the callee is something the model can get wrong.   *)
(***************************************************************************)
EXTENDS Naturals, Sequences, FiniteSets, TLC

\* Bounds of the explored files.
NumIds == 3
MaxRels == 1
MaxRelated == 2
MaxChildren == 1

Ids == 1..NumIds

\* ------------------------------------------------------------------------
\* The schema: what entity.is_a(cls) answers (ifcopenshell, IFC4).
\* ------------------------------------------------------------------------
Ancestors(t) ==
    CASE t = "IfcSite" ->
           {"IfcSite", "IfcSpatialStructureElement", "IfcSpatialElement",
            "IfcProduct", "IfcObject", "IfcObjectDefinition", "IfcRoot"}
      [] t = "IfcWall" ->
           {"IfcWall", "IfcBuildingElement", "IfcElement",
            "IfcProduct", "IfcObject", "IfcObjectDefinition", "IfcRoot"}
      [] t = "IfcDoor" ->
           {"IfcDoor", "IfcBuildingElement", "IfcElement",
            "IfcProduct", "IfcObject", "IfcObjectDefinition", "IfcRoot"}
      [] t = "IfcVirtualElement" ->
           {"IfcVirtualElement", "IfcElement",
            "IfcProduct", "IfcObject", "IfcObjectDefinition", "IfcRoot"}
      [] t = "IfcWallType" ->
           {"IfcWallType", "IfcBuildingElementType", "IfcElementType",
            "IfcTypeProduct", "IfcTypeObject", "IfcObjectDefinition", "IfcRoot"}
      [] t = "IfcRelAggregates" ->
           {"IfcRelAggregates", "IfcRelDecomposes", "IfcRelationship", "IfcRoot"}
      [] t = "IfcRelNests" ->
           {"IfcRelNests", "IfcRelDecomposes", "IfcRelationship", "IfcRoot"}
      [] t = "IfcRelAssignsToGroup" ->
           {"IfcRelAssignsToGroup", "IfcRelAssigns", "IfcRelationship", "IfcRoot"}
      [] t = "IfcRelConnectsElements" ->
           {"IfcRelConnectsElements", "IfcRelConnects", "IfcRelationship", "IfcRoot"}
      [] t = "IfcRelConnectsStructuralMember" ->
           {"IfcRelConnectsStructuralMember", "IfcRelConnects", "IfcRelationship",
            "IfcRoot"}
      [] t = "IfcRelContainedInSpatialStructure" ->
           {"IfcRelContainedInSpatialStructure", "IfcRelConnects", "IfcRelationship",
            "IfcRoot"}
      [] t = "IfcRelFillsElement" ->
           {"IfcRelFillsElement", "IfcRelConnects", "IfcRelationship", "IfcRoot"}
      [] t = "IfcRelVoidsElement" ->
           {"IfcRelVoidsElement", "IfcRelDecomposes", "IfcRelationship", "IfcRoot"}
      [] t = "IfcRelSpaceBoundary" ->
           {"IfcRelSpaceBoundary", "IfcRelConnects", "IfcRelationship", "IfcRoot"}
      [] t = "IfcRelDefinesByType" ->
           {"IfcRelDefinesByType", "IfcRelDefines", "IfcRelationship", "IfcRoot"}
      [] OTHER -> {t}

is_a(t, cls) == cls \in Ancestors(t)

RECURSIVE Ascending(_)
Ascending(S) ==
    IF S = {} THEN << >>
    ELSE LET m == CHOOSE x \in S : \A y \in S : x <= y
         IN  <<m>> \o Ascending(S \ {m})

\* ifc_file.by_type(cls) for entity classes: the matching ids, in id order.
by_type(f, cls) == Ascending({i \in DOMAIN f.types : is_a(f.types[i], cls)})

\* "#" + str(id) + "=" + str(is_a())
label(f, id) == <<"#", id, "=", f.types[id]>>

\* The first-match colour chain of the node pass.
fill(t) ==
    IF is_a(t, "IfcGroup") THEN "#ff99ff"
    ELSE IF is_a(t, "IfcSpatialElement") THEN "#ff99cc"
    ELSE IF is_a(t, "IfcElementAssembly") THEN "#ccff99"
    ELSE IF is_a(t, "IfcOpeningElement") THEN "#cc99ff"
    ELSE IF is_a(t, "IfcDoor") \/ is_a(t, "IfcWindow") THEN "#99ccff"
    ELSE IF is_a(t, "IfcElement") THEN "#9999ff"
    ELSE IF is_a(t, "IfcStructuralItem") THEN "#99ff99"
    ELSE "#ff9999"

\* The statements written to the .dot file.
NodeStmt(lbl, color) == [stmt |-> "node", label |-> lbl, color |-> color]
EdgeStmt(a, b, weight, style) ==
    [stmt |-> "edge", a |-> a, b |-> b, weight |-> weight, style |-> style]
SubgraphStmt(id) == [stmt |-> "subgraph", id |-> id]
MemberStmt(lbl) == [stmt |-> "member", label |-> lbl]
Line(text) == [stmt |-> text]

\* ------------------------------------------------------------------------
\* new_interest = interest.copy(): a fresh set object with the same members.
\* ------------------------------------------------------------------------
\* "new_interest = interest": no copy, the same set object.
copy_alias(h, ref) == [heap |-> h, ref |-> ref]

\* "new_interest = set()": a fresh set object that starts empty.
copy_empty(h, ref) == [heap |-> [h EXCEPT !["local"] = {}], ref |-> "local"]

copy(h, ref) == [heap |-> [h EXCEPT !["local"] = h[ref]], ref |-> "local"]

\* ------------------------------------------------------------------------
\* The node pass.
\* ------------------------------------------------------------------------
\* Without the IfcVirtualElement check.
is_virtual_never(f, id) == FALSE

is_virtual(f, id) == is_a(f.types[id], "IfcVirtualElement")

\* Without the interest check of the node pass.
skips_node_never(I, id) == FALSE

\* "if interest and not ifc_object.id() in interest: continue"
skips_node(I, id) == I # {} /\ id \notin I

RECURSIVE node_loop(_, _, _, _)
node_loop(f, I, todo, st) ==
    IF todo = << >> THEN st
    ELSE LET id == Head(todo)
             reg == st.ifc_objects @@ (id :> label(f, id))
         IN  IF is_virtual(f, id) THEN node_loop(f, I, Tail(todo), st)
             ELSE IF skips_node(I, id)
                  THEN node_loop(f, I, Tail(todo), [st EXCEPT !.ifc_objects = reg])
                  ELSE node_loop(f, I, Tail(todo),
                         [ifc_objects |-> reg,
                          out |-> Append(st.out, NodeStmt(reg[id], fill(f.types[id])))])

\* ------------------------------------------------------------------------
\* The relationship pass.
\* ------------------------------------------------------------------------
\* One "if ifc_rel.is_a(kind):" of the chain; weight or style "keep" when the
\* branch does not assign it.
rel_if(acc, rel, kind, related, weight, style) ==
    IF is_a(rel.type, kind)
    THEN [relating_object |-> rel.relating,
          related_objects |-> related,
          weight |-> IF weight = "keep" THEN acc.weight ELSE weight,
          style |-> IF style = "keep" THEN acc.style ELSE style]
    ELSE acc

\* The chain without its two style assignments.
decompose_all_solid(rel) ==
    LET d0 == [relating_object |-> "None", related_objects |-> << >>,
               weight |-> "1", style |-> "solid"]
        d1 == rel_if(d0, rel, "IfcRelAggregates", rel.related, "9", "keep")
        d2 == rel_if(d1, rel, "IfcRelNests", rel.related, "9", "keep")
        d3 == rel_if(d2, rel, "IfcRelAssignsToGroup", rel.related, "keep", "keep")
        d4 == rel_if(d3, rel, "IfcRelConnectsElements", <<rel.related[1]>>, "9", "keep")
        d5 == rel_if(d4, rel, "IfcRelConnectsStructuralMember", <<rel.related[1]>>,
                     "keep", "keep")
        d6 == rel_if(d5, rel, "IfcRelContainedInSpatialStructure", rel.related,
                     "keep", "keep")
        d7 == rel_if(d6, rel, "IfcRelFillsElement", <<rel.related[1]>>, "9", "keep")
        d8 == rel_if(d7, rel, "IfcRelVoidsElement", <<rel.related[1]>>, "9", "keep")
        d9 == rel_if(d8, rel, "IfcRelSpaceBoundary", <<rel.related[1]>>, "9", "keep")
    IN  d9

\* Lines 99-138: the chain of "if ifc_rel.is_a(...)" over a relationship.
decompose(rel) ==
    LET d0 == [relating_object |-> "None", related_objects |-> << >>,
               weight |-> "1", style |-> "solid"]
        d1 == rel_if(d0, rel, "IfcRelAggregates", rel.related, "9", "keep")
        d2 == rel_if(d1, rel, "IfcRelNests", rel.related, "9", "keep")
        d3 == rel_if(d2, rel, "IfcRelAssignsToGroup", rel.related, "keep", "keep")
        d4 == rel_if(d3, rel, "IfcRelConnectsElements", <<rel.related[1]>>, "9", "dashed")
        d5 == rel_if(d4, rel, "IfcRelConnectsStructuralMember", <<rel.related[1]>>,
                     "keep", "keep")
        d6 == rel_if(d5, rel, "IfcRelContainedInSpatialStructure", rel.related,
                     "keep", "keep")
        d7 == rel_if(d6, rel, "IfcRelFillsElement", <<rel.related[1]>>, "9", "keep")
        d8 == rel_if(d7, rel, "IfcRelVoidsElement", <<rel.related[1]>>, "9", "keep")
        d9 == rel_if(d8, rel, "IfcRelSpaceBoundary", <<rel.related[1]>>, "9", "dotted")
    IN  d9

\* new_interest.add(id)
set_add(h, ref, id) == [h EXCEPT ![ref] = @ \cup {id}]

edge_stmt(reg, a, b, weight, style) == EdgeStmt(reg[a], reg[b], weight, style)

\* The interest filter without its third branch (related in interest,
\* relating not): the edge is written instead of deferred.
filter_edge_one_sided(st, iref, nref, reg, a, b, weight, style) ==
    LET I == st.heap[iref]
        written == [st EXCEPT !.out = Append(@, edge_stmt(reg, a, b, weight, style))]
    IN  IF I # {}
        THEN IF a \notin I /\ b \notin I THEN st
             ELSE IF a \in I /\ b \notin I
                  THEN [st EXCEPT !.heap = set_add(@, nref, b)]
                  ELSE written
        ELSE written

\* The interest filter, for a pair with both ends in the registry.
filter_edge(st, iref, nref, reg, a, b, weight, style) ==
    LET I == st.heap[iref]
        written == [st EXCEPT !.out = Append(@, edge_stmt(reg, a, b, weight, style))]
    IN  IF I # {}
        THEN IF a \notin I /\ b \notin I THEN st
             ELSE IF a \in I /\ b \notin I
                  THEN [st EXCEPT !.heap = set_add(@, nref, b)]
                  ELSE IF b \in I /\ a \notin I
                       THEN [st EXCEPT !.heap = set_add(@, nref, a)]
                       ELSE written
        ELSE written

\* "relating_object.id() in ifc_objects and related_object.id() in ifc_objects"
in_registry(reg, a, b) == a \in DOMAIN reg /\ b \in DOMAIN reg

RECURSIVE related_loop(_, _, _, _, _, _)
related_loop(st, iref, nref, reg, d, todo) ==
    IF todo = << >> THEN st
    ELSE LET a == d.relating_object
             b == Head(todo)
         IN  related_loop(
                 IF in_registry(reg, a, b)
                 THEN filter_edge(st, iref, nref, reg, a, b, d.weight, d.style)
                 ELSE st,
                 iref, nref, reg, d, Tail(todo))

RECURSIVE rel_loop(_, _, _, _, _)
rel_loop(st, iref, nref, reg, rels) ==
    IF rels = << >> THEN st
    ELSE LET d == decompose(Head(rels))
         IN  rel_loop(related_loop(st, iref, nref, reg, d, d.related_objects),
                      iref, nref, reg, Tail(rels))

\* ------------------------------------------------------------------------
\* cluster(): the recursive subgraph writer.  st = [out, err]; err is the
\* KeyError of a registry lookup, which ends the whole call.
\* ------------------------------------------------------------------------
get_decomposition(f, id) == f.decomp[id]

RECURSIVE cluster(_, _, _, _, _)
RECURSIVE cluster_children(_, _, _, _, _)

cluster_children(st, f, reg, I, todo) ==
    IF st.err \/ todo = << >> THEN st
    ELSE LET child == Head(todo)
         IN  IF is_virtual(f, child) THEN cluster_children(st, f, reg, I, Tail(todo))
             ELSE IF I # {} /\ child \notin I
                  THEN cluster_children(st, f, reg, I, Tail(todo))
                  ELSE IF child \notin DOMAIN reg
                       THEN [st EXCEPT !.err = TRUE]
                       ELSE cluster_children(
                                cluster([st EXCEPT !.out = Append(@, MemberStmt(reg[child]))],
                                        f, reg, I, child),
                                f, reg, I, Tail(todo))

cluster(st, f, reg, I, id) ==
    IF st.err THEN st
    ELSE IF is_virtual(f, id) THEN st
    ELSE IF I # {} /\ id \notin I THEN st
    ELSE LET children == get_decomposition(f, id)
             opened == [st EXCEPT !.out = @ \o <<SubgraphStmt(id), Line("cluster=true;")>>]
         IN  IF children = << >> THEN st
             ELSE IF id \notin DOMAIN reg THEN [opened EXCEPT !.err = TRUE]
             ELSE LET inner == cluster_children(
                                   [opened EXCEPT !.out = Append(@, MemberStmt(reg[id]))],
                                   f, reg, I, children)
                  IN  IF inner.err THEN inner
                      ELSE [inner EXCEPT !.out = Append(@, Line("}"))]

RECURSIVE site_loop(_, _, _, _, _)
site_loop(st, f, reg, I, todo) ==
    IF st.err \/ todo = << >> THEN st
    ELSE site_loop(cluster(st, f, reg, I, Head(todo)), f, reg, I, Tail(todo))

\* ------------------------------------------------------------------------
\* write_dot(ifc_file, path_dot, interest): the whole call, on heap h with
\* 'interest' bound to the set object iref.
\* ------------------------------------------------------------------------
write_dot(f, h, iref) ==
    LET c == copy(h, iref)
        n == node_loop(f, c.heap[iref], by_type(f, "IfcObject"),
                       [ifc_objects |-> << >>,
                        out |-> <<Line("strict graph G {"),
                                  Line("graph [overlap=false,splines=true,rankdir=LR];")>>])
        e == rel_loop([heap |-> c.heap, out |-> n.out], iref, c.ref,
                      n.ifc_objects, f.rels)
        k == site_loop([out |-> e.out, err |-> FALSE], f, n.ifc_objects,
                       e.heap[iref], by_type(f, "IfcSite"))
    IN  [heap |-> e.heap,
         new_interest |-> c.ref,
         ifc_objects |-> n.ifc_objects,
         out |-> IF k.err THEN k.out ELSE Append(k.out, Line("}")),
         err |-> k.err]

\* ------------------------------------------------------------------------
\* The explored IFC files.
\* ------------------------------------------------------------------------
EntityTypes == {"IfcSite", "IfcWall", "IfcVirtualElement", "IfcWallType"}
ListKinds == {"IfcRelAggregates"}
SingleKinds == {"IfcRelSpaceBoundary"}
OtherKinds == {"IfcRelDefinesByType"}

\* The ascending sequences of 1..n members of S.
AscendingUpTo(S, n) ==
    {Ascending(T) : T \in {U \in SUBSET S : U # {} /\ Cardinality(U) <= n}}

After(i) == {j \in Ids : j > i}

\* A relationship refers from an entity to entities of larger ids (no
\* self-reference, as the schema's rules ask).
Relationships ==
    UNION {[type : ListKinds, relating : {i}, related : AscendingUpTo(After(i), MaxRelated)]
           \cup [type : SingleKinds, relating : {i}, related : AscendingUpTo(After(i), 1)]
           : i \in Ids}
    \cup [type : OtherKinds, relating : {1}, related : {<<1>>}]

RECURSIVE SeqsUpTo(_, _)
SeqsUpTo(S, n) ==
    IF n = 0 THEN {<< >>}
    ELSE SeqsUpTo(S, n - 1)
         \cup {Append(p[1], p[2]) : p \in {q \in SeqsUpTo(S, n - 1) \X S : Len(q[1]) = n - 1}}

NoDecomposition == [i \in Ids |-> << >>]

\* Decompositions are acyclic: the children of an entity have larger ids.
Decompositions ==
    {d \in [Ids -> {<< >>} \cup AscendingUpTo(Ids, MaxChildren)] :
        \A i \in Ids : \A k \in DOMAIN d[i] : d[i][k] > i}

\* The IfcRelAggregates relationships that state a decomposition: one per
\* decomposed entity, in id order.
RECURSIVE DecomposedBy(_, _)
DecomposedBy(d, todo) ==
    IF todo = << >> THEN << >>
    ELSE IF d[Head(todo)] = << >> THEN DecomposedBy(d, Tail(todo))
    ELSE <<[type |-> "IfcRelAggregates", relating |-> Head(todo),
            related |-> d[Head(todo)]]>>
         \o DecomposedBy(d, Tail(todo))

\* Files without a spatial decomposition, with any relationships between any
\* entities but sites; and files with a decomposition, of any entities, whose
\* relationships are the aggregations that state it.
Files ==
    [types : [Ids -> EntityTypes \ {"IfcSite"}], rels : SeqsUpTo(Relationships, MaxRels),
     decomp : {NoDecomposition}]
    \cup {[types |-> t, rels |-> DecomposedBy(d, Ascending(Ids)), decomp |-> d] :
             <<t, d>> \in [Ids -> EntityTypes] \X Decompositions}

\* ------------------------------------------------------------------------
\* State.
\* ------------------------------------------------------------------------
VARIABLES
    ifc_file,      \* the IFC file write_dot is called on
    heap,          \* the set objects: the default argument's, the caller's, the callee's
    interest,      \* the set object bound to the parameter 'interest' in the last call
    given,         \* the members of that set when the call was made
    new_interest,  \* the set object bound to the local 'new_interest'
    ifc_objects,   \* the registry of the last call: id -> label
    out,           \* the statements written to the .dot file by the last call
    pc             \* "idle", "returned" or "raised" (KeyError)

vars == <<ifc_file, heap, interest, given, new_interest, ifc_objects, out, pc>>

Refs == {"default", "caller", "local"}

Init ==
    /\ ifc_file \in Files
    /\ heap = [r \in Refs |-> {}]
    /\ interest = "default"
    /\ given = {}
    /\ new_interest = "local"
    /\ ifc_objects = << >>
    /\ out = << >>
    /\ pc = "idle"

\* One call write_dot(ifc_file, path, <the set object iref of heap h>).
Call(h, iref) ==
    \E r \in {write_dot(ifc_file, h, iref)} :
        /\ heap' = r.heap
        /\ interest' = iref
        /\ given' = h[iref]
        /\ new_interest' = r.new_interest
        /\ ifc_objects' = r.ifc_objects
        /\ out' = r.out
        /\ pc' = IF r.err THEN "raised" ELSE "returned"
        /\ UNCHANGED ifc_file

\* write_dot(ifc_file, path, interest=S) with a set the caller has just built,
\* taken as the first call on the file.  (As a later call it reaches no further
\* state: write_dot works on a copy, line 57, so an earlier call leaves nothing
\* behind that this one reads, and its result is the one of the first call.)
CallWithInterest ==
    \E S \in SUBSET Ids :
        /\ pc = "idle"
        /\ Call([heap EXCEPT !["caller"] = S], "caller")

\* write_dot(ifc_file, path): the parameter is bound to the default set object
\* (the caller holds no set of its own any more).
CallDefault ==
    Call([heap EXCEPT !["caller"] = {}], "default")

\* write_dot(ifc_file, path, interest=new_interest) with the set the last call
\* returned, which the caller now owns.
CallAgain ==
    /\ pc = "returned"
    /\ IF new_interest = "local"
       THEN Call([heap EXCEPT !["caller"] = heap["local"]], "caller")
       ELSE Call(heap, new_interest)

Next == CallWithInterest \/ CallDefault \/ CallAgain

Spec == Init /\ [][Next]_vars

\* ------------------------------------------------------------------------
\* What the claims speak of.
\* ------------------------------------------------------------------------
Done == pc \in {"returned", "raised"}

Registry == DOMAIN ifc_objects

\* The non-virtual IfcObject entities of the file.
NonVirtualObjects ==
    {i \in Ids : /\ "IfcObject" \in Ancestors(ifc_file.types[i])
                 /\ "IfcVirtualElement" \notin Ancestors(ifc_file.types[i])}

VirtualNodes == {i \in Ids : "IfcVirtualElement" \in Ancestors(ifc_file.types[i])}

\* The decomposition table of the specification: relationship kind -> the
\* weight and the style of its edges.
TableWeight ==
    [k \in {"IfcRelAggregates", "IfcRelNests", "IfcRelConnectsElements",
            "IfcRelFillsElement", "IfcRelVoidsElement", "IfcRelSpaceBoundary"} |-> "9"]
    @@ [k \in {"IfcRelAssignsToGroup", "IfcRelConnectsStructuralMember",
               "IfcRelContainedInSpatialStructure"} |-> "1"]

TableStyle ==
    [k \in DOMAIN TableWeight |->
        CASE k = "IfcRelConnectsElements" -> "dashed"
          [] k = "IfcRelSpaceBoundary" -> "dotted"
          [] OTHER -> "solid"]

Recognized(rel) == rel.type \in DOMAIN TableWeight

\* The (relationship, position) places of the file whose pair is (a, b), for
\* relationships of a recognized kind.
Places(a, b) ==
    UNION {{<<r, k>> : k \in {j \in DOMAIN ifc_file.rels[r].related :
                                /\ Recognized(ifc_file.rels[r])
                                /\ ifc_file.rels[r].relating = a
                                /\ ifc_file.rels[r].related[j] = b}}
           : r \in DOMAIN ifc_file.rels}

\* The indexes of the statements of one kind in the output.
Stmts(kind) == {i \in DOMAIN out : out[i].stmt = kind}

\* The id a label names.
IdOf(lbl) == lbl[2]

NodeStmtsOf(id) == {i \in Stmts("node") : IdOf(out[i].label) = id}

EdgeStmtsOf(a, b) == {i \in Stmts("edge") : IdOf(out[i].a) = a /\ IdOf(out[i].b) = b}

\* Every node and edge statement is written with the labels of the registry.
WellLabelled ==
    /\ \A i \in Stmts("node") :
          /\ IdOf(out[i].label) \in Registry
          /\ out[i].label = <<"#", IdOf(out[i].label), "=",
                              ifc_file.types[IdOf(out[i].label)]>>
    /\ \A i \in Stmts("edge") :
          /\ IdOf(out[i].a) \in Registry /\ out[i].a = ifc_objects[IdOf(out[i].a)]
          /\ IdOf(out[i].b) \in Registry /\ out[i].b = ifc_objects[IdOf(out[i].b)]

\* C1: when a call ends, new_interest holds every id of the interest set it
\* was given, registered or not.
C1_Superset == Done => given \subseteq heap[new_interest]

C1_Witness ==
    /\ pc = "returned"
    /\ given \ Registry # {}
    /\ heap[new_interest] \ given # {}

\* The frontier of the given interest set: the registered ids outside it that
\* share a pair of a recognized relationship with a registered id inside it.
Frontier ==
    {x \in Registry \ given :
        \E y \in Registry \cap given : Places(x, y) # {} \/ Places(y, x) # {}}

\* C2: with a non-empty interest set the ids added to new_interest are exactly
\* the frontier; with an empty interest set nothing is added.
C2_Frontier ==
    Done => /\ given # {} => heap[new_interest] \ given = Frontier
            /\ given = {} => heap[new_interest] = {}

\* An id was added as the relating end of a pair whose related end is in the
\* interest set, next to an unregistered id that adds nothing.
C2_Witness ==
    /\ pc = "returned"
    /\ \E x \in heap[new_interest] \ given : \E y \in given : Places(x, y) # {}
    /\ Frontier # Ids \ given

\* C5: with a non-empty interest set, a node gets its one styled statement
\* exactly when it is registered and in the interest set, and a pair gets an
\* edge statement (one per place it occurs at) exactly when both its ends are
\* registered and in the interest set; every non-virtual IfcObject is
\* registered, in the interest set or not.
C5_Filtered ==
    (Done /\ given # {}) =>
        /\ Registry = NonVirtualObjects
        /\ WellLabelled
        /\ \A i \in Stmts("node") : out[i].color \in {"#ff99cc", "#9999ff"}
        /\ \A id \in Ids :
              Cardinality(NodeStmtsOf(id)) =
                  IF id \in Registry /\ id \in given THEN 1 ELSE 0
        /\ \A a \in Ids : \A b \in Ids :
              Cardinality(EdgeStmtsOf(a, b)) =
                  IF {a, b} \subseteq Registry /\ {a, b} \subseteq given
                  THEN Cardinality(Places(a, b))
                  ELSE 0

\* A registered node outside the interest set, a pair with one end in it and
\* a pair with both ends in it.
C5_Witness ==
    /\ pc = "returned"
    /\ given # {}
    /\ Registry \ given # {}
    /\ \E a \in given : \E b \in Registry \ given : Places(a, b) # {}
    /\ Stmts("edge") # {}

\* C6: with an empty interest set, the edge statements from a to b of a given
\* weight and style are as many as the places where a recognized relationship
\* whose kind has that weight and style pairs a with b, both registered; the
\* output holds no other edge statement.
C6_AllEdges ==
    (Done /\ given = {}) =>
        /\ WellLabelled
        /\ \A a \in Ids : \A b \in Ids : \A w \in {"1", "9"} :
           \A s \in {"solid", "dashed", "dotted"} :
              Cardinality({i \in EdgeStmtsOf(a, b) :
                              out[i].weight = w /\ out[i].style = s}) =
                  IF {a, b} \subseteq Registry
                  THEN Cardinality({p \in Places(a, b) :
                          /\ TableWeight[ifc_file.rels[p[1]].type] = w
                          /\ TableStyle[ifc_file.rels[p[1]].type] = s})
                  ELSE 0
        /\ \A i \in Stmts("edge") :
              out[i].weight \in {"1", "9"} /\ out[i].style \in {"solid", "dashed", "dotted"}

\* A relationship with two related entities gave two edge statements, and a
\* relationship with an unregistered end gave none.
C6_Witness ==
    /\ pc = "returned"
    /\ given = {}
    /\ \E a \in Registry : \E b \in Registry : \E c \in Registry :
          b # c /\ Places(a, b) # {} /\ Places(a, c) # {}
                /\ EdgeStmtsOf(a, b) # {} /\ EdgeStmtsOf(a, c) # {}

\* The ids a statement names.
Mentions(st) ==
    CASE st.stmt = "node" -> {IdOf(st.label)}
      [] st.stmt = "member" -> {IdOf(st.label)}
      [] st.stmt = "edge" -> {IdOf(st.a), IdOf(st.b)}
      [] st.stmt = "subgraph" -> {st.id}
      [] OTHER -> {}

Children(id) == {ifc_file.decomp[id][k] : k \in DOMAIN ifc_file.decomp[id]}

\* C4: a node of the virtual type has no registry entry and is named by no
\* node, edge, member or subgraph statement, whatever the interest set.
C4_VirtualHidden ==
    Done => \A n \in VirtualNodes :
               /\ n \notin Registry
               /\ \A i \in DOMAIN out : n \notin Mentions(out[i])

\* A virtual node in the interest set that is a decomposition child of a node
\* whose block was written and an end of a pair whose other end was drawn.
C4_Witness ==
    /\ Done
    /\ \E n \in VirtualNodes \cap given :
          /\ \E i \in Stmts("subgraph") : n \in Children(out[i].id)
          /\ \E y \in Registry \cap given :
                /\ Places(n, y) # {} \/ Places(y, n) # {}
                /\ NodeStmtsOf(y) # {}

\* C10: a call leaves the set it was given as it was, leaves the default set
\* empty, and binds new_interest to another set object than the one given.
C10_InputUntouched ==
    /\ heap["default"] = {}
    /\ Done => /\ heap[interest] = given
               /\ new_interest # interest

\* A call on a set of the caller's added ids to its own copy.
C10_Witness ==
    /\ pc = "returned"
    /\ interest = "caller"
    /\ given # {}
    /\ heap[new_interest] # given
    /\ heap["caller"] = given

\* C7: no call ends in a failed registry lookup, and every label of an edge,
\* member or subgraph statement is the label of a registered node.
C7_NeverFails ==
    /\ pc # "raised"
    /\ \A i \in Stmts("edge") \cup Stmts("member") \cup Stmts("subgraph") :
          Mentions(out[i]) \subseteq Registry

\* C8: no two subgraph statements of one output carry the same id.
C8_UniqueBlocks ==
    \A i \in Stmts("subgraph") : \A j \in Stmts("subgraph") :
        i # j => out[i].id # out[j].id

\* The interest check of cluster(): the set is empty or holds the id.
Passes(id) == given = {} \/ id \in given

Listed(id) == id \notin VirtualNodes /\ Passes(id)

\* The nodes cluster() is called on: the sites, and the listed children of
\* the nodes that get a block.
RECURSIVE Called(_)
Called(n) ==
    IF n = 0 THEN {i \in Ids : "IfcSite" \in Ancestors(ifc_file.types[i])}
    ELSE Called(n - 1)
         \cup {c \in Ids : \E p \in Called(n - 1) :
                 Listed(p) /\ c \in Children(p) /\ Listed(c)}

Blocks == {p \in Called(NumIds) : Listed(p) /\ Children(p) # {}}

\* The labels listed directly in the block opened at out[i], in order.
RECURSIVE MembersFrom(_, _, _)
MembersFrom(j, depth, acc) ==
    IF j > Len(out) THEN acc
    ELSE IF out[j].stmt = "subgraph" THEN MembersFrom(j + 1, depth + 1, acc)
    ELSE IF out[j].stmt = "}"
         THEN IF depth = 0 THEN acc ELSE MembersFrom(j + 1, depth - 1, acc)
    ELSE IF out[j].stmt = "member" /\ depth = 0
         THEN MembersFrom(j + 1, depth, Append(acc, out[j].label))
         ELSE MembersFrom(j + 1, depth, acc)

RECURSIVE ListedLabels(_)
ListedLabels(children) ==
    IF children = << >> THEN << >>
    ELSE IF Listed(Head(children))
         THEN <<label(ifc_file, Head(children))>> \o ListedLabels(Tail(children))
         ELSE ListedLabels(Tail(children))

\* C9: the nodes with a block are the non-virtual, interest-passing nodes
\* cluster() is called on that have a decomposition child, and a block lists
\* its root and then exactly the root's non-virtual, interest-passing children.
C9_Blocks ==
    Done =>
        /\ {out[i].id : i \in Stmts("subgraph")} = Blocks
        /\ \A i \in Stmts("subgraph") :
              MembersFrom(i + 1, 0, << >>) =
                  <<label(ifc_file, out[i].id)>>
                  \o ListedLabels(ifc_file.decomp[out[i].id])

\* C9 where every listed child is registered.
C9_BlocksRegistered ==
    (Done /\ \A p \in Ids : \A c \in Children(p) : Listed(c) => c \in Registry)
        => C9_Blocks

\* The node and edge statements of an output, in order.
IsNodeOrEdge(st) == st.stmt \in {"node", "edge"}

NodesAndEdges(o) == SelectSeq(o, IsNodeOrEdge)

\* What a call with an empty interest set writes for the file.
FullOutput == write_dot(ifc_file, [r \in Refs |-> {}], "default").out

\* The weakly-connected components, under the edges of the full output, of
\* the nodes of the full output that S holds.
RECURSIVE Reach(_, _)
Reach(S, n) ==
    IF n = 0 THEN S
    ELSE LET R == Reach(S, n - 1)
         IN  R \cup {x \in Ids : \E i \in DOMAIN FullOutput :
                       /\ FullOutput[i].stmt = "edge"
                       /\ x \in Mentions(FullOutput[i])
                       /\ Mentions(FullOutput[i]) \cap R # {}}

Component(S) ==
    Reach({x \in S : \E i \in DOMAIN FullOutput :
                        FullOutput[i].stmt = "node" /\ x \in Mentions(FullOutput[i])},
          NumIds)

FullOutputWithin(C) ==
    LET Inside(st) == IsNodeOrEdge(st) /\ Mentions(st) \subseteq C
    IN  SelectSeq(FullOutput, Inside)

\* The call returned the interest set it was given: the expansion has stopped.
AtFixpoint == pc = "returned" /\ given # {} /\ heap[new_interest] = given

\* C3: every call of an expansion returns a set, within the ids of the file
\* and the starting set, and the call that returns the set it was given
\* writes the node and edge statements of the full output that lie in the
\* components of its interest set.
C3_Expansion ==
    (Done /\ given # {}) =>
        /\ pc = "returned"
        /\ heap[new_interest] \subseteq given \cup Ids
        /\ AtFixpoint => NodesAndEdges(out) = FullOutputWithin(Component(given))

\* C3 for the calls that return.
C3_ExpansionReturned ==
    AtFixpoint => NodesAndEdges(out) = FullOutputWithin(Component(given))

\* An expansion step keeps the components: the set returned spans the same
\* components as the set given.
C3_StepKeepsComponents ==
    (pc = "returned" /\ given # {}) => Component(heap[new_interest]) = Component(given)

====
